---- MODULE Spec2Model ----
(***************************************************************************)
(* SlytherNN: the single-episode snake simulator of snake_game/game.py     *)
(* (classes Snake, Fruit, SnakeGame) as a state machine.                   *)
(*                                                                         *)
(* Cells are pairs <<x, y>>.  Rewards are kept in hundredths so that       *)
(* reward_step = -0.01 stays an integer.                                   *)
(***************************************************************************)
EXTENDS Integers, Sequences, FiniteSets, TLC

\* ---------------------------------------------------------------- bounds
\* Side of the square grid the game is constructed with (spec: >= 4).
GridSize == 4

\* step() has no guard on self.running, so it can be called on a terminal
\* game; the model follows at most MaxOverrun such calls before a reset.
MaxOverrun == 1

\* ------------------------------------------------------------- constants
\* SnakeGame.__init__ defaults, in hundredths.
reward_fruit == 500
reward_death == 0 - 1000
reward_step == 0 - 1
reward_win == 10000

\* agent.dqn.ACTIONS (the bare name is a reserved word of the language):
\* action index -> direction, in the order of dir_map (up, down, left,
\* right).  Python indexes it from 0.
DQN_ACTIONS == << <<0, -1>>, <<0, 1>>, <<-1, 0>>, <<1, 0>> >>

ActionIds == 0 .. (Len(DQN_ACTIONS) - 1)

\* Action ids step() rejects with ValueError.
InvalidActionIds == {0 - 1, Len(DQN_ACTIONS)}

Action(a) == DQN_ACTIONS[a + 1]

\* step(): action_idx in range(len(ACTIONS))
IsValidAction(a) == a \in 0 .. (Len(DQN_ACTIONS) - 1)

Cells == (0 .. (GridSize - 1)) \X (0 .. (GridSize - 1))

\* snake_game.utils.random_position(grid_size): any cell of the grid.
random_position == Cells

Range(s) == {s[i] : i \in 1 .. Len(s)}

\* |n|
Abs(n) == IF n < 0 THEN 0 - n ELSE n

Opposite(d) == <<0 - d[1], 0 - d[2]>>

\* ------------------------------------------------------------------ Snake
\* Snake.__init__: body, head first.
InitBody ==
    << <<GridSize \div 2, GridSize \div 2>>,
       <<(GridSize \div 2) - 1, GridSize \div 2>>,
       <<(GridSize \div 2) - 2, GridSize \div 2>> >>

InitDirection == <<1, 0>>

\* Variant of Snake.move that ignores the grow flag (always drops the tail).
Move_IgnoresGrow(b, d, g) ==
    LET new_head == <<b[1][1] + d[1], b[1][2] + d[2]>>
    IN  <<new_head>> \o SubSeq(b, 1, Len(b) - 1)

\* Variant of Snake.move whose slice is body[:-2].
Move_DropsTwo(b, d, g) ==
    LET new_head == <<b[1][1] + d[1], b[1][2] + d[2]>>
    IN  IF g THEN <<new_head>> \o b
             ELSE <<new_head>> \o SubSeq(b, 1, Len(b) - 2)

\* Variant of Snake.move that keeps the tail on every move.
Move_KeepsTail(b, d, g) ==
    LET new_head == <<b[1][1] + d[1], b[1][2] + d[2]>>
    IN  <<new_head>> \o b

\* Snake.move: the body after the move (grow is cleared by the move).
Move(b, d, g) ==
    LET new_head == <<b[1][1] + d[1], b[1][2] + d[2]>>
    IN  IF g THEN <<new_head>> \o b
             ELSE <<new_head>> \o SubSeq(b, 1, Len(b) - 1)

\* Variant of Snake.set_direction without the reversal test.
SetDirection_NoReversalTest(cur, dir_tuple) == dir_tuple

\* Snake.set_direction: the direction stored after the call.
SetDirection(cur, dir_tuple) ==
    IF dir_tuple = Opposite(cur) THEN cur ELSE dir_tuple

\* Snake.head
SnakeHead(b) == b[1]

\* Variant of Snake.collided_with_self that tests body[1:-1].
CollidedWithSelf_SkipsTail(b) == \E i \in 2 .. (Len(b) - 1) : b[i] = b[1]

\* Snake.collided_with_self: body[0] in body[1:]
CollidedWithSelf(b) == \E i \in 2 .. Len(b) : b[i] = b[1]

\* Variant of Snake.collided_with_wall with > for >=.
CollidedWithWall_OffByOne(b) ==
    \/ b[1][1] < 0
    \/ b[1][2] < 0
    \/ b[1][1] > GridSize
    \/ b[1][2] > GridSize

\* Snake.collided_with_wall
CollidedWithWall(b) ==
    \/ b[1][1] < 0
    \/ b[1][2] < 0
    \/ b[1][1] >= GridSize
    \/ b[1][2] >= GridSize

\* ------------------------------------------------------------------ Fruit
\* Variant of Fruit.new_position that tests against snake_body[1:].
NewPosition_SkipsHead(snake_body) ==
    {pos \in random_position : pos \notin Range(Tail(snake_body))}

\* Variant of Fruit.new_position without the retry loop.
NewPosition_NoRetry(snake_body) == random_position

\* Fruit.new_position: the positions the retry loop can return.  When the
\* set is empty the loop never returns.
NewPosition(snake_body) == {pos \in random_position : pos \notin Range(snake_body)}

\* -------------------------------------------------------------- SnakeGame
VARIABLES
    body,       \* snake.body
    direction,  \* snake.direction
    grow,       \* snake.grow
    fruit,      \* fruit.position
    score,
    running,
    won,
    last,       \* the last call that returned, and what it returned
    raised,     \* <<a>> when the latest call was step(a) raising ValueError
    overrun,    \* step calls made on the terminal game since it ended
    config,     \* grid_size and the four reward attributes of the game
    ui,         \* main.py: the event loop around the game
    store,      \* the trainer's replay store
    train       \* train.py: the training loop

vars == <<body, direction, grow, fruit, score, running, won, last, raised,
          overrun, config, ui, store, train>>

\* What the game object itself does not hold.
others == <<ui, store, train>>

\* Value of ui, store and train where the event loop, the store or the
\* training loop is not part of the specification.
Absent == [absent |-> TRUE]

\* SnakeGame.__init__ parameters kept as attributes: the defaults.
DefaultConfig ==
    [grid_size |-> GridSize,
     reward_fruit |-> reward_fruit, reward_death |-> reward_death,
     reward_step |-> reward_step, reward_win |-> reward_win]

\* A game constructed with rewards of the caller's choice.
CustomConfig ==
    [grid_size |-> GridSize,
     reward_fruit |-> 1000, reward_death |-> 0 - 100,
     reward_step |-> 0, reward_win |-> 5000]

\* Variant of check_win_condition comparing with grid_size (not squared).
CheckWinCondition_NotSquared(b, g) ==
    (Len(b) + (IF g THEN 1 ELSE 0)) = GridSize

\* Variant of check_win_condition comparing with grid_size * 2.
CheckWinCondition_Doubled(b, g) ==
    (Len(b) + (IF g THEN 1 ELSE 0)) = GridSize * 2

\* SnakeGame.check_win_condition on a body b with grow flag g.
CheckWinCondition(b, g) ==
    (Len(b) + (IF g THEN 1 ELSE 0)) = GridSize * GridSize

\* SnakeGame.__init__ (also run by reset): everything but the fruit.
Construct ==
    /\ body = InitBody
    /\ direction = InitDirection
    /\ grow = FALSE
    /\ score = 0
    /\ running = TRUE
    /\ won = FALSE
    /\ fruit \in NewPosition(InitBody)

Init ==
    /\ Construct
    /\ last = [op |-> "init"]
    /\ raised = <<>>
    /\ overrun = 0
    /\ config = DefaultConfig
    /\ ui = Absent
    /\ store = Absent
    /\ train = Absent

\* SnakeGame.get_state, grid part: body cells inside the grid hold 1, then
\* the fruit cell is written over whatever it held.
GridEncoding(b, f) ==
    [c \in Cells |-> IF c = f THEN 2 ELSE IF c \in Range(b) THEN 1 ELSE 0]

\* SnakeGame.get_state, direction part: the position of the one-hot bit.
DirectionIndex(d) ==
    IF \E i \in 1 .. Len(DQN_ACTIONS) : DQN_ACTIONS[i] = d
    THEN (CHOOSE i \in 1 .. Len(DQN_ACTIONS) : DQN_ACTIONS[i] = d) - 1
    ELSE 0

\* SnakeGame.get_state, relative fruit position: the numerators of dx and
\* dy; both are divided by grid_size - 1.
RelFruit(b, f) ==
    <<f[1] - SnakeHead(b)[1], f[2] - SnakeHead(b)[2]>>

\* SnakeGame.get_state: the observation of a game.
GetState(b, d, f) ==
    [grid |-> GridEncoding(b, f), direction |-> DirectionIndex(d),
     rel_fruit |-> RelFruit(b, f)]

\* SnakeGame.update, run with the direction d that set_direction left.
Update(d) ==
    LET b1 == Move(body, d, grow)
    IN  /\ body' = b1
        /\ IF SnakeHead(b1) = fruit
           THEN /\ grow' = TRUE
                /\ score' = score + 1
                /\ IF CheckWinCondition(b1, TRUE)
                   THEN /\ won' = TRUE
                        /\ running' = FALSE
                        /\ fruit' = fruit
                   ELSE /\ fruit' \in NewPosition(b1)
                        /\ won' = won
                        /\ running' = (running /\ ~(CollidedWithSelf(b1) \/ CollidedWithWall(b1)))
           ELSE /\ grow' = FALSE
                /\ score' = score
                /\ fruit' = fruit
                /\ won' = won
                /\ running' = (running /\ ~(CollidedWithSelf(b1) \/ CollidedWithWall(b1)))

\* Variant of the reward rules without the fruit branch.
StepReward_NoFruitRule(running1, won1, score1, prev_score) ==
    IF ~running1
    THEN (IF won1 THEN config.reward_win ELSE config.reward_death)
    ELSE config.reward_step

\* The reward step() returns, from the state update() left.
StepReward(running1, won1, score1, prev_score) ==
    IF ~running1
    THEN (IF won1 THEN config.reward_win ELSE config.reward_death)
    ELSE IF score1 > prev_score THEN config.reward_fruit ELSE config.reward_step

\* Variant of the done flag that is set on a win only.
StepDone_WinOnly(running1, won1) ==
    IF ~running1 THEN won1 ELSE FALSE

\* The done flag step() returns: set in the same branches as the reward.
StepDone(running1, won1) ==
    IF ~running1 THEN TRUE ELSE FALSE

\* SnakeGame.step with a valid action index: what it does to the game.
StepGame(a) ==
    /\ IsValidAction(a)
    /\ running \/ overrun < MaxOverrun
    /\ direction' = SetDirection(direction, Action(a))
    /\ Update(direction')
    /\ last' = [op |-> "step", action |-> a,
                reward |-> StepReward(running', won', score', score),
                done |-> StepDone(running', won')]
    /\ raised' = <<>>
    /\ overrun' = IF running THEN 0 ELSE overrun + 1
    /\ config' = config

\* SnakeGame.step with a valid action index.
Step(a) == StepGame(a) /\ UNCHANGED others

\* Variant of step that validates the index after set_direction: a negative
\* index then reads ACTIONS from its end before the error is raised.
StepInvalid_ValidatesLate(a) ==
    /\ ~IsValidAction(a)
    /\ raised' = <<a>>
    /\ direction' = IF a < 0 /\ a >= 0 - Len(DQN_ACTIONS)
                     THEN SetDirection(direction, DQN_ACTIONS[Len(DQN_ACTIONS) + 1 + a])
                     ELSE direction
    /\ UNCHANGED <<body, grow, fruit, score, running, won, last, overrun>>
    /\ UNCHANGED <<config, others>>

\* SnakeGame.step with an action index outside range(len(ACTIONS)):
\* ValueError is raised before anything is touched.
StepInvalid(a) ==
    /\ ~IsValidAction(a)
    /\ raised' = <<a>>
    /\ UNCHANGED <<body, direction, grow, fruit, score, running, won, last, overrun>>
    /\ UNCHANGED <<config, others>>

\* Variant of reset that calls __init__ without the reward arguments.
ResetConfig_DefaultRewards(c) ==
    [DefaultConfig EXCEPT !.grid_size = c.grid_size]

\* reset: the attributes __init__ is called with, taken from the game.
ResetConfig(c) ==
    [grid_size |-> c.grid_size,
     reward_fruit |-> c.reward_fruit, reward_death |-> c.reward_death,
     reward_step |-> c.reward_step, reward_win |-> c.reward_win]

\* SnakeGame.reset: __init__ run again on the same object.
ResetGame ==
    /\ body' = InitBody
    /\ direction' = InitDirection
    /\ grow' = FALSE
    /\ score' = 0
    /\ running' = TRUE
    /\ won' = FALSE
    /\ fruit' \in NewPosition(InitBody)
    /\ config' = ResetConfig(config)

\* SnakeGame.reset called on the game.
Reset ==
    /\ ResetGame
    /\ last' = [op |-> "reset"]
    /\ raised' = <<>>
    /\ overrun' = 0
    /\ UNCHANGED others

\* Calls that return: step with a valid action, reset.
Next ==
    \/ \E a \in ActionIds : Step(a)
    \/ Reset

Spec == Init /\ [][Next]_vars

\* Callers that step a Running game only (main.py, evaluate.py) but may
\* pass any action id.
NextCalls ==
    \/ \E a \in ActionIds : running /\ Step(a)
    \/ \E a \in InvalidActionIds : StepInvalid(a)
    \/ Reset

SpecCalls == Init /\ [][NextCalls]_vars

\* A game constructed with default or with custom rewards.
InitConfig ==
    /\ Construct
    /\ last = [op |-> "init"]
    /\ raised = <<>>
    /\ overrun = 0
    /\ config \in {DefaultConfig, CustomConfig}
    /\ ui = Absent
    /\ store = Absent
    /\ train = Absent

\* Callers that step a Running game only and reset at any time.
NextGuarded ==
    \/ \E a \in ActionIds : running /\ Step(a)
    \/ Reset

SpecConfig == InitConfig /\ [][NextGuarded]_vars

\* ----------------------------------------------------- PriorityStore
\* The replay store (agent.prioritized_memory.PrioritizedReplayMemory, the
\* PriorityStore of the design). Transitions are numbered in the order of
\* their insertion; priorities are in hundredths.

Capacity == 4
MaxInserted == 6
StoreBatchSize == 2
PriorityEpsilon == 1
DefaultPriority == 100
NoPriority == 0 - 1
InsertPriorities == {NoPriority, 100, 200, 300, 400}
UpdatePriorities == {0, 0 - 1000}

gameVars == <<body, direction, grow, fruit, score, running, won, last, raised,
              overrun, config>>

Max(S) == CHOOSE m \in S : \A n \in S : n <= m

\* PriorityStore(capacity): no slot is valid.
NewStore ==
    [slots |-> [i \in 1 .. Capacity |-> 0],
     prios |-> [i \in 1 .. Capacity |-> 0],
     pos |-> 0, inserted |-> 0, batch |-> <<>>, batch_at |-> 0]

\* The slots that hold a valid entry, as 0-based indices.
ValidSlots(st) == {i \in 0 .. (Capacity - 1) : st.slots[i + 1] # 0}

\* size(): the number of valid entries.
StoreSize(st) == Cardinality(ValidSlots(st))

\* Variant of the ring position that stays on the last slot once the store
\* is full.
NextSlot_Sticks(pos) == IF pos + 1 < Capacity THEN pos + 1 ELSE pos

\* The ring position after a write: wraps at capacity.
NextSlot(pos) == (pos + 1) % Capacity

\* The priority an insertion assigns: the one given, else the maximum
\* present, else 1.0.
InsertedPriority(st, p) ==
    IF p # NoPriority THEN p
    ELSE IF ValidSlots(st) = {} THEN DefaultPriority
    ELSE Max({st.prios[i + 1] : i \in ValidSlots(st)})

\* insert(transition, priority): writes transition number inserted + 1 and
\* its priority into the next ring slot.
Inserted(st, p) ==
    [st EXCEPT
        !.slots[st.pos + 1] = st.inserted + 1,
        !.prios[st.pos + 1] = InsertedPriority(st, p),
        !.pos = NextSlot(st.pos),
        !.inserted = st.inserted + 1]

StoreInsert(p) ==
    /\ store.inserted < MaxInserted
    /\ store' = Inserted(store, p)
    /\ UNCHANGED <<gameVars, ui, train>>

\* The store after update_priorities([i], [p]): max(|p|, PriorityEpsilon).
Updated(st, i, p) ==
    [st EXCEPT !.prios[i + 1] = Max({Abs(p), PriorityEpsilon})]

\* update_priorities([i], [p]) on a valid slot.
StoreUpdatePriorities(i, p) ==
    /\ i \in ValidSlots(store)
    /\ store' = Updated(store, i, p)
    /\ UNCHANGED <<gameVars, ui, train>>

\* What sample(n) may return as indices: valid entries, with replacement,
\* each of positive priority.
SampleChoices(st, n) ==
    {idxs \in [1 .. n -> ValidSlots(st)] :
        \A k \in 1 .. n : st.prios[idxs[k] + 1] > 0}

\* The store after sample returned idxs: the batch pairs each index with
\* its transition.
Sampled(st, idxs) ==
    [st EXCEPT
        !.batch = [k \in 1 .. Len(idxs) |-> <<idxs[k], st.slots[idxs[k] + 1]>>],
        !.batch_at = st.inserted]

\* sample(batch_size) with enough valid entries.
StoreSample ==
    /\ StoreSize(store) >= StoreBatchSize
    /\ \E idxs \in SampleChoices(store, StoreBatchSize) :
          store' = Sampled(store, idxs)
    /\ UNCHANGED <<gameVars, ui, train>>

InitStore ==
    /\ Construct
    /\ fruit = <<0, 0>>
    /\ last = [op |-> "init"]
    /\ raised = <<>>
    /\ overrun = 0
    /\ config = DefaultConfig
    /\ ui = Absent
    /\ store = NewStore
    /\ train = Absent

NextStore ==
    \/ \E p \in InsertPriorities : StoreInsert(p)
    \/ \E i \in 0 .. (Capacity - 1), p \in UpdatePriorities :
          StoreUpdatePriorities(i, p)
    \/ StoreSample

SpecStore == InitStore /\ [][NextStore]_vars

\* ------------------------------------------------------- main.py event loop
\* The interactive loop in human mode: each event of pygame.event.get() is
\* handled on its own, in the order of arrival.

MaxEvents == 8

\* The loop's state next to the game: the mode, the number of events
\* handled, and the direction of the snake's previous move (none yet after
\* construction and after a reset).
NewUi == [mode |-> "human", events |-> 0, moved |-> <<>>]

\* Events are counted, and bounded, where the player steers the snake; the
\* games the model plays are finite without it.
Steered == ui.mode \in {"human", "ai_no_model"}
EventsLeft == Steered => ui.events < MaxEvents
Counted(u) == IF Steered THEN [u EXCEPT !.events = u.events + 1] ELSE u

\* KEYDOWN of an arrow key in human mode: game.snake.set_direction, whether
\* or not the game is running.
KeyArrow(d) ==
    /\ ui.mode = "human"
    /\ EventsLeft
    /\ direction' = SetDirection(direction, d)
    /\ ui' = Counted(ui)
    /\ UNCHANGED <<body, grow, fruit, score, running, won, last, raised,
                   overrun, config, store, train>>

\* KEYDOWN of R while the game is not running: game.reset().
KeyR ==
    /\ ~running
    /\ EventsLeft
    /\ ResetGame
    /\ last' = [op |-> "reset"]
    /\ raised' = <<>>
    /\ overrun' = 0
    /\ ui' = [Counted(ui) EXCEPT !.moved = <<>>]
    /\ UNCHANGED <<store, train>>

\* Variant of the timer branch without the test of game.running.
MoveEventAi_Unguarded(a) ==
    /\ ui.mode = "ai"
    /\ EventsLeft
    /\ StepGame(a)
    /\ ui' = [Counted(ui) EXCEPT !.moved = <<direction'>>]
    /\ UNCHANGED <<store, train>>

\* MOVE_EVENT while the game is running, AI mode with a model loaded:
\* game.ai_step(action_idx) with the model's action.
MoveEventAi(a) ==
    /\ running
    /\ ui.mode = "ai"
    /\ EventsLeft
    /\ StepGame(a)
    /\ ui' = [Counted(ui) EXCEPT !.moved = <<direction'>>]
    /\ UNCHANGED <<store, train>>

\* MOVE_EVENT while the game is running, human mode or AI mode without a
\* model: game.update().
MoveEvent ==
    /\ running
    /\ ui.mode \in {"human", "ai_no_model"}
    /\ EventsLeft
    /\ Update(direction)
    /\ direction' = direction
    /\ ui' = [Counted(ui) EXCEPT !.moved = <<direction>>]
    /\ UNCHANGED <<last, raised, overrun, config, store, train>>

InitHuman ==
    /\ Construct
    /\ last = [op |-> "init"]
    /\ raised = <<>>
    /\ overrun = 0
    /\ config = DefaultConfig
    /\ ui = NewUi
    /\ store = Absent
    /\ train = Absent

NextHuman ==
    \/ \E i \in 1 .. Len(DQN_ACTIONS) : KeyArrow(DQN_ACTIONS[i])
    \/ KeyR
    \/ MoveEvent

SpecHuman == InitHuman /\ [][NextHuman]_vars

\* evaluate.py, evaluate_performance and interactive_demo: the game is
\* stepped with the model's action while it is running.
EvalStep(a) ==
    /\ running
    /\ ui.mode = "eval"
    /\ StepGame(a)
    /\ UNCHANGED <<ui, store, train>>

\* evaluate.py: the next episode, or SPACE in the demo, replaces the game
\* by a new SnakeGame.
NewGame ==
    /\ ui.mode = "eval"
    /\ body' = InitBody
    /\ direction' = InitDirection
    /\ grow' = FALSE
    /\ score' = 0
    /\ running' = TRUE
    /\ won' = FALSE
    /\ fruit' \in NewPosition(InitBody)
    /\ config' = DefaultConfig
    /\ last' = [op |-> "init"]
    /\ raised' = <<>>
    /\ overrun' = 0
    /\ UNCHANGED <<ui, store, train>>

\* MOVE_EVENT while the game is not running: no branch takes it.
MoveEventDropped ==
    /\ ~running
    /\ ui.mode # "eval"
    /\ EventsLeft
    /\ ui' = Counted(ui)
    /\ UNCHANGED <<gameVars, store, train>>

\* The loops that play a game: main.py in its modes, evaluate.py.
InitPlay ==
    /\ Construct
    /\ last = [op |-> "init"]
    /\ raised = <<>>
    /\ overrun = 0
    /\ config = DefaultConfig
    /\ ui \in {[NewUi EXCEPT !.mode = m] :
                  m \in {"human", "ai", "ai_no_model", "eval"}}
    /\ store = Absent
    /\ train = Absent

NextPlay ==
    \/ \E i \in 1 .. Len(DQN_ACTIONS) : KeyArrow(DQN_ACTIONS[i])
    \/ KeyR
    \/ MoveEvent
    \/ \E a \in ActionIds : MoveEventAi(a)
    \/ MoveEventDropped
    \/ \E a \in ActionIds : EvalStep(a)
    \/ NewGame

SpecPlay == InitPlay /\ [][NextPlay]_vars

\* ------------------------------------------------------ train.py main loop
\* The training loop over a batched simulator of NUM_ENVS instances. The
\* instances 1 .. TrackedEnvs are followed one by one; an instance is known
\* by its episode number and the number of ticks of that episode, and ends
\* at most MaxEpisodes episodes within a run.

NUM_ENVS == 64
NUM_EPISODES == 4000
MAX_STEPS_PER_EP == 100
TARGET_UPDATE_FREQ == 1000
GRAD_ACCUM_STEPS == 2
TrackedEnvs == 2
MaxTrainTicks == 18
MaxEpisodes == 2

\* BATCH_SIZE and SAVE_EVERY, scaled to the store of Capacity slots and to
\* the episodes of a run.
BATCH_SIZE == 3
SAVE_EVERY == 2

\* The ticks of a run in which every sample and every loss is followed.
MaxOptTicks == 5

\* The ticks of a run in which one instance is followed through long
\* episodes.
MaxLongTicks == 102

\* What a call of optimize_model may find: the loss of the batch and the
\* absolute TD error of a sampled transition, in hundredths.
Losses == {1, 2}
TdErrors == {0, 1000}

Envs == 1 .. TrackedEnvs

\* The state of an instance at the start of episode e.
FreshInstance(e) == [ep |-> e, t |-> 0]

\* The observation of an instance state.
Observe(s) == <<"obs", s.ep, s.t>>

\* VectorEnv.step on one instance: the state the tick leads to, whose
\* observation is returned, and the state the instance is left in (a done
\* instance is reset after its terminal observation is taken).
Advanced(s) == [ep |-> s.ep, t |-> s.t + 1]
LeftIn(s, d) == IF d THEN FreshInstance(s.ep + 1) ELSE Advanced(s)

\* memory.add for each followed instance in turn, without a priority.
RECURSIVE AddAll(_, _)
AddAll(st, n) == IF n = 0 THEN st ELSE AddAll(Inserted(st, NoPriority), n - 1)

\* update_priorities(idxs, td_errors): entry k of td_errors goes to slot
\* idxs[k], in turn.
RECURSIVE UpdatedAll(_, _, _, _)
UpdatedAll(st, idxs, td_errors, k) ==
    IF k > Len(idxs) THEN st
    ELSE UpdatedAll(Updated(st, idxs[k], td_errors[k]), idxs, td_errors, k + 1)

\* An index is stale when its slot no longer holds the transition that
\* sample paired it with.
Stale(st, idxs) ==
    \E k \in 1 .. Len(idxs) :
        \/ k > Len(st.batch)
        \/ st.batch[k][1] # idxs[k]
        \/ st.slots[idxs[k] + 1] # st.batch[k][2]

\* Variant of the guard that lets a store one entry short through.
TooFewEntries_OffByOne(st) == StoreSize(st) < BATCH_SIZE - 1

\* optimize_model's guard: len(memory) < BATCH_SIZE.
TooFewEntries(st) == StoreSize(st) < BATCH_SIZE

\* Variant that steps the optimizer on the call after the due one.
OptimizerDue_Late(n) == n % GRAD_ACCUM_STEPS = 1

\* accum_step % GRAD_ACCUM_STEPS == 0 after the increment.
OptimizerDue(n) == n % GRAD_ACCUM_STEPS = 0

\* Variant that hands update_priorities the indices in reverse order of
\* the slots of the store instead of those sampled.
UpdateIndices_FromStore(st, idxs) ==
    [k \in 1 .. Len(idxs) |-> (st.pos + k) % Capacity]

\* The indices optimize_model hands to update_priorities: idxs of sample.
UpdateIndices(st, idxs) == idxs

\* optimize_model on store st and loop state tr, where sample returns idxs,
\* the batch has the given loss and TD errors: the store and the
\* accumulation state it leaves, what it returns (<<>> for None), and the
\* calls it made on the store.
OptimizeModel(st, tr, idxs, td_errors, loss) ==
    IF TooFewEntries(st)
    THEN [store |-> st, accum_step |-> tr.accum_step,
          accum_loss |-> tr.accum_loss, ret_loss |-> <<>>,
          stepped |-> FALSE, guarded |-> FALSE, calls |-> <<>>]
    ELSE LET st1 == Sampled(st, idxs)
             n == tr.accum_step + 1
             total == tr.accum_loss + loss
             due == OptimizerDue(n)
             upd == UpdateIndices(st1, idxs)
         IN  [store |-> UpdatedAll(st1, upd, td_errors, 1),
              accum_step |-> IF due THEN 0 ELSE n,
              accum_loss |-> IF due THEN 0 ELSE total,
              ret_loss |-> IF due THEN <<total>> ELSE <<>>,
              stepped |-> due,
              guarded |-> TRUE,
              calls |-> <<[call |-> "sample", idxs |-> idxs,
                           size |-> StoreSize(st)],
                          [call |-> "update_priorities", idxs |-> upd,
                           stale |-> Stale(st1, upd)]>>]

\* get_latest_checkpoint: the highest episode number among the checkpoint
\* files, 0 without a file. A file is known by its episode number.
LatestCheckpoint(files) == IF files = {} THEN 0 ELSE Max(files)

\* Variant of the cleanup that keeps the three lowest episode numbers.
Cleanup_KeepsOldest(files) ==
    {f \in files : Cardinality({g \in files : g < f}) < 3}

\* The cleanup after a save: all files but the three of the highest
\* episode numbers are removed.
Cleanup(files) ==
    {f \in files : Cardinality({g \in files : g > f}) < 3}

\* The per-instance loop over dones, from instance i on: each done
\* instance counts as a completed episode, and a count that is a multiple
\* of SAVE_EVERY writes a checkpoint and cleans up. acc holds the count,
\* the files and the episode numbers saved so far on this tick.
RECURSIVE Accounted(_, _, _)
Accounted(dones, i, acc) ==
    IF i > TrackedEnvs THEN acc
    ELSE IF ~dones[i] THEN Accounted(dones, i + 1, acc)
    ELSE LET c == acc.completed + 1
         IN  IF c % SAVE_EVERY = 0
             THEN Accounted(dones, i + 1,
                            [completed |-> c,
                             files |-> Cleanup(acc.files \cup {c}),
                             saved |-> Append(acc.saved, c)])
             ELSE Accounted(dones, i + 1, [acc EXCEPT !.completed = c])

\* The loop's state before the first iteration: envs.reset() gave the
\* observations of fresh instances, step_count is 0.
NewTrain ==
    [tick |-> 0,
     completed_episodes |-> 0,
     checkpoints |-> {},
     saved |-> <<>>,
     step_count |-> 0,
     accum_step |-> 0,
     accum_loss |-> 0,
     ret_loss |-> <<>>,
     stepped |-> FALSE,
     guarded |-> FALSE,
     guarded_calls |-> 0,
     loss |-> 0,
     pending |-> 0,
     calls |-> <<>>,
     since_refresh |-> 0,
     inst |-> [i \in Envs |-> FreshInstance(0)],
     states |-> [i \in Envs |-> Observe(FreshInstance(0))],
     before |-> [i \in Envs |-> FreshInstance(0)],
     stored |-> [i \in Envs |-> <<>>],
     episode_steps |-> [i \in Envs |-> 0],
     episode_counts |-> [i \in Envs |-> 0]]

\* The calls of memory.add of one tick.
AddCalls == [i \in Envs |-> [call |-> "add"]]

\* One iteration of the while loop: envs.step, memory.add, optimize_model,
\* the episode accounting, the target refresh test, states = next_states
\* and the step count. dones[i] is what envs.step reports for instance i;
\* idxs, td_errors and loss are what optimize_model meets if it samples.
\* guarded_calls counts the calls of optimize_model that passed its guard,
\* pending sums the losses of those since the last optimizer step, and
\* calls lists the tick's calls on the store in their order.
TrainTick(dones, idxs, td_errors, loss) ==
    /\ \E i \in Envs : train.episode_counts[i] < NUM_EPISODES
    /\ \A i \in Envs : dones[i] => train.episode_counts[i] < MaxEpisodes
    /\ \E opt \in {OptimizeModel(AddAll(store, TrackedEnvs), train, idxs,
                                  td_errors, loss)},
          acc \in {Accounted(dones, 1,
                             [completed |-> train.completed_episodes,
                              files |-> train.checkpoints,
                              saved |-> <<>>])} :
       LET next_states == [i \in Envs |-> Observe(Advanced(train.inst[i]))]
           refresh == (train.step_count % TARGET_UPDATE_FREQ = 0)
       IN  /\ store' = opt.store
           /\ train' = [train EXCEPT
                !.tick = train.tick + 1,
                !.completed_episodes = acc.completed,
                !.checkpoints = acc.files,
                !.saved = acc.saved,
                !.accum_step = opt.accum_step,
                !.accum_loss = opt.accum_loss,
                !.ret_loss = opt.ret_loss,
                !.stepped = opt.stepped,
                !.guarded = opt.guarded,
                !.guarded_calls = IF opt.guarded THEN train.guarded_calls + 1
                                  ELSE train.guarded_calls,
                !.loss = IF opt.guarded THEN loss ELSE 0,
                !.pending = IF ~opt.guarded THEN train.pending
                            ELSE IF opt.stepped THEN 0
                            ELSE train.pending + loss,
                !.calls = AddCalls \o opt.calls,
                !.inst = [i \in Envs |-> LeftIn(train.inst[i], dones[i])],
                !.before = train.inst,
                !.stored = [i \in Envs |->
                               <<[obs |-> train.states[i],
                                  next_obs |-> next_states[i],
                                  done |-> dones[i]]>>],
                !.episode_steps = [i \in Envs |->
                               IF dones[i] THEN 0 ELSE train.episode_steps[i] + 1],
                !.episode_counts = [i \in Envs |->
                               IF dones[i] THEN train.episode_counts[i] + 1
                               ELSE train.episode_counts[i]],
                !.since_refresh = IF refresh THEN 0 ELSE train.since_refresh + 1,
                !.states = next_states,
                !.step_count = train.step_count + NUM_ENVS]
    /\ UNCHANGED <<gameVars, ui>>

InitTrain ==
    /\ Construct
    /\ fruit = <<0, 0>>
    /\ last = [op |-> "init"]
    /\ raised = <<>>
    /\ overrun = 0
    /\ config = DefaultConfig
    /\ ui = Absent
    /\ store = NewStore
    /\ train = NewTrain

\* The checkpoint directories a run may start with: none, those an
\* earlier run has left, and one with files put there by hand.
ResumeDirs == {{}, {2}, {2, 4}, {2, 4, 6}, {1, 3, 5, 6}}

\* The loop's state when it starts in a directory with checkpoints whose
\* files hold no per-instance counters: completed_episodes is the latest
\* episode number.
InitResume ==
    /\ Construct
    /\ fruit = <<0, 0>>
    /\ last = [op |-> "init"]
    /\ raised = <<>>
    /\ overrun = 0
    /\ config = DefaultConfig
    /\ ui = Absent
    /\ store = NewStore
    /\ \E files \in ResumeDirs :
          train = [NewTrain EXCEPT
                      !.checkpoints = files,
                      !.completed_episodes = LatestCheckpoint(files)]

\* One sample and one batch outcome for a store: the first choice of
\* indices, the largest TD error for each, the smallest loss.
OneSample(st) == CHOOSE idxs \in SampleChoices(st, BATCH_SIZE) : TRUE
OneTdErrors == [k \in 1 .. BATCH_SIZE |-> Max(TdErrors)]
OneLoss == CHOOSE l \in Losses : \A m \in Losses : l <= m

\* Runs of MaxTrainTicks ticks with every outcome of envs.step and one
\* outcome of optimize_model per tick.
NextTrain ==
    /\ train.tick < MaxTrainTicks
    /\ \E dones \in [Envs -> BOOLEAN] :
          TrainTick(dones, OneSample(AddAll(store, TrackedEnvs)),
                    OneTdErrors, OneLoss)

SpecTrain == InitTrain /\ [][NextTrain]_vars

SpecResume == InitResume /\ [][NextTrain]_vars

\* Runs of MaxOptTicks ticks with every sample and every loss, in which
\* the TD errors of a batch are all alike and no episode ends.
NextOptimize ==
    /\ train.tick < MaxOptTicks
    /\ \E loss \in Losses, e \in TdErrors,
          idxs \in SampleChoices(AddAll(store, TrackedEnvs), BATCH_SIZE) :
          TrainTick([i \in Envs |-> FALSE], idxs,
                    [k \in 1 .. BATCH_SIZE |-> e], loss)

SpecOptimize == InitTrain /\ [][NextOptimize]_vars

\* Runs of MaxLongTicks ticks with every outcome of envs.step for the
\* first instance, in which no other instance ends an episode, and one
\* outcome of optimize_model per tick.
NextLong ==
    /\ train.tick < MaxLongTicks
    /\ \E d \in BOOLEAN :
          TrainTick([i \in Envs |-> d /\ i = 1],
                    OneSample(AddAll(store, TrackedEnvs)), OneTdErrors, OneLoss)

SpecLong == InitTrain /\ [][NextLong]_vars

\* ================================================================ claims
TotalCells == GridSize * GridSize

\* A tick issued on a Running game has just returned.
TickReturned == last.op = "step" /\ overrun = 0

\* This step of the model is a step() call with a valid action on a Running
\* game (only Step sets last.op to "step").
Tick == running /\ last'.op = "step"

\* C1: every step with a valid action on a Running game returns the reward
\* of exactly one rule: reward_win when the game became Won on the tick,
\* reward_death when it became Died, reward_fruit when the score increased
\* and the game is still Running, reward_step otherwise.
C1_ExactlyOneRewardRule ==
    [][Tick =>
            LET r == last'.reward
                becameWon == ~running' /\ won'
                becameDied == ~running' /\ ~won'
                ateAlive == running' /\ score' > score
            IN  /\ becameWon => r = reward_win
                /\ becameDied => r = reward_death
                /\ ateAlive => r = reward_fruit
                /\ ~(becameWon \/ becameDied \/ ateAlive) => r = reward_step
                /\ Cardinality({reward_win, reward_death, reward_fruit, reward_step}) = 4
      ]_vars

\* C1 witness: a tick on a Running game returned reward_fruit and the game
\* is still Running.
C1_Witness == TickReturned /\ running /\ last.reward = reward_fruit

\* C2: on a Running game a step whose action is the exact opposite of the
\* current direction leaves the stored direction unchanged, advances the
\* head one cell in that direction, and has the same outcome as the step
\* that repeats the current direction.
C2_ReversalIgnored ==
    [][(Tick /\ Action(last'.action) = Opposite(direction)) =>
            /\ direction' = direction
            /\ body'[1] = <<body[1][1] + direction[1], body[1][2] + direction[2]>>
            /\ \E a2 \in ActionIds :
                /\ Action(a2) = direction
                /\ direction' = SetDirection(direction, Action(a2))
                /\ Update(direction')
      ]_vars

\* C2 witness: the tick that just returned on a Running game was issued
\* with the opposite of the direction the snake kept.
C2_Witness ==
    /\ TickReturned
    /\ Action(last.action) = Opposite(direction)
    /\ body[1] = <<body[2][1] + direction[1], body[2][2] + direction[2]>>

C4_LengthNonDecreasing ==
    [][Tick => Len(body') >= Len(body)]_vars

\* C4 witness: a Running game several ticks into an episode in which the
\* snake has grown twice.
C4_Witness == TickReturned /\ running /\ Len(body) = 5

\* C5 as stated: a tick makes the game Won exactly when the body list
\* holds grid_size^2 cells at the end of the tick.
C5_Original == TickReturned => (won <=> Len(body) = TotalCells)

\* C5 amended: a tick makes the game Won exactly when, at the end of the
\* tick, the length of the body list plus one for the growth pending from
\* the fruit just eaten equals grid_size^2; the body list itself then holds
\* grid_size^2 - 1 cells.
C5_WonIffLengthWithPendingGrowth ==
    TickReturned =>
        /\ won <=> (Len(body) + (IF grow THEN 1 ELSE 0) = TotalCells)
        /\ won => (grow /\ Len(body) = TotalCells - 1)

\* C5 witness: the tick that just returned made the game Won with one cell
\* of growth still pending.
C5_Witness == TickReturned /\ won /\ grow /\ Len(body) = TotalCells - 1

\* C6: from a fresh game (body length 3), an episode in which the snake
\* eats grid_size^2 - 3 fruits without dying is Won on the tick of the last
\* fruit, that tick returns reward_win and done, the score is then
\* grid_size^2 - 3, and the game is never Won with a smaller score.
C6_WonAtFullScore ==
    (overrun = 0) =>
        /\ (score = TotalCells - Len(InitBody)) <=> won
        /\ score <= TotalCells - Len(InitBody)
        /\ won => /\ ~running
                  /\ last.op = "step"
                  /\ last.reward = reward_win
                  /\ last.done

\* C6 witness: the game has just been Won with score grid_size^2 - 3 by a
\* tick that returned reward_win.
C6_Witness ==
    /\ overrun = 0
    /\ won
    /\ score = TotalCells - 3
    /\ last.op = "step"
    /\ last.reward = reward_win
    /\ last.done

\* C7: between two resets reward_win is returned at most once: after a step
\* has returned reward_win, no later step returns it again.
C7_WinReportedOnce ==
    [][(/\ last.op = "step"
        /\ last.reward = reward_win
        /\ last'.op = "step"
        /\ overrun' = overrun + 1) => last'.reward # reward_win]_vars

\* C8: on a tick of a Running game that does not win, the game becomes Died
\* exactly when the head, after the move, is outside the grid or on another
\* cell of the body; moving the head into the cell the tail leaves on the
\* same tick is no death when no growth is pending.
C8_DiedIffCollision ==
    [][(Tick /\ ~won') =>
            LET h == body'[1]
            IN  /\ ~running' <=>
                     \/ h[1] < 0 \/ h[1] >= GridSize
                     \/ h[2] < 0 \/ h[2] >= GridSize
                     \/ \E i \in 2 .. Len(body') : body'[i] = h
                /\ (~grow /\ h = body[Len(body)]) => running'
      ]_vars

\* C8 witness: the tick that just returned made the game Died with the head
\* inside the grid, on another cell of the body.
C8_Witness ==
    /\ TickReturned
    /\ ~running
    /\ ~won
    /\ body[1] \in Cells
    /\ \E i \in 2 .. Len(body) : body[i] = body[1]

\* C9: the done flag a step returns is true exactly when the game is Died
\* or Won (running is False) after the tick.
C9_DoneIffTerminal == (last.op = "step") => (last.done <=> ~running)

\* C9 witness: a tick has returned done on a game that Died by leaving the
\* grid.
C9_Witness ==
    /\ TickReturned
    /\ last.done
    /\ ~running
    /\ ~won
    /\ body[1] \notin Cells

\* C10: whenever the game is Running the fruit is on a cell of the grid that
\* is no cell of the snake body.
C10_FruitOffBody ==
    running =>
        /\ fruit[1] >= 0 /\ fruit[1] < GridSize
        /\ fruit[2] >= 0 /\ fruit[2] < GridSize
        /\ \A i \in 1 .. Len(body) : body[i] # fruit

\* C10 witness: a Running game whose fruit has just been placed again next
\* to a snake of 6 cells.
C10_Witness ==
    /\ TickReturned
    /\ running
    /\ grow
    /\ Len(body) = 6
    /\ fruit \notin Range(body)

\* C11: whenever the game is Running the cells of the body are pairwise
\* distinct, lie inside the grid, and each is orthogonally adjacent to the
\* next one.
C11_BodyWellFormed ==
    running =>
        /\ \A i, j \in 1 .. Len(body) : (i # j) => (body[i] # body[j])
        /\ \A i \in 1 .. Len(body) :
            /\ body[i][1] >= 0 /\ body[i][1] < GridSize
            /\ body[i][2] >= 0 /\ body[i][2] < GridSize
        /\ \A i \in 1 .. (Len(body) - 1) :
            Abs(body[i][1] - body[i + 1][1]) + Abs(body[i][2] - body[i + 1][2]) = 1

\* C11 witness: a Running game whose snake of 8 cells has its head next to
\* its own tail.
C11_Witness ==
    /\ TickReturned
    /\ running
    /\ Len(body) = 8
    /\ Abs(body[1][1] - body[8][1]) + Abs(body[1][2] - body[8][2]) = 1

\* The layout of a fresh game on the grid.
FreshLayout ==
    LET h == GridSize \div 2
    IN  /\ running
        /\ ~won
        /\ score = 0
        /\ ~grow
        /\ body = << <<h, h>>, <<h - 1, h>>, <<h - 2, h>> >>
        /\ direction = <<1, 0>>
        /\ \A i \in 1 .. 3 : body[i] \in (0 .. (GridSize - 1)) \X (0 .. (GridSize - 1))
        /\ \A i \in 1 .. 2 :
            body[i] = <<body[i + 1][1] + direction[1], body[i + 1][2] + direction[2]>>
        /\ fruit \in (0 .. (GridSize - 1)) \X (0 .. (GridSize - 1))
        /\ \A i \in 1 .. 3 : body[i] # fruit

\* C12: after construction and after every reset, whatever the state
\* before, the game is Running, not Won, with score 0 and no pending
\* growth, the body is the 3 cells (g/2, g/2), (g/2-1, g/2), (g/2-2, g/2)
\* heading Right, inside the grid and contiguous, the fruit is off the
\* body, and grid size and rewards are what they were before the reset.
C12_FreshAfterConstructAndReset ==
    /\ FreshLayout
    /\ [][(last'.op = "reset") => (FreshLayout' /\ config' = config)]_vars

\* C12 witness: a game constructed with custom rewards has been played to a
\* terminal state and reset, and is fresh with the custom rewards.
C12_Witness ==
    /\ last.op = "reset"
    /\ FreshLayout
    /\ config = CustomConfig

\* C13: a step with an action id outside the four directions fails with
\* an error and leaves body, direction, pending growth, fruit, score,
\* running and won as they were; no step is ever carried out with such an
\* id.
C13_InvalidActionLeavesGame ==
    [][/\ (raised' # <<>> /\ raised' # raised) =>
            /\ raised'[1] \notin 0 .. 3
            /\ UNCHANGED <<body, direction, grow, fruit, score, running, won>>
       /\ (last'.op = "step" /\ last' # last) =>
            /\ last'.action \in 0 .. 3
            /\ raised' = <<>>
      ]_vars

\* C13 witness: step(-1) has just raised on a Running game with score 2
\* whose snake is heading down.
C13_Witness ==
    /\ raised = <<0 - 1>>
    /\ running
    /\ score = 2
    /\ direction = <<0, 1>>

\* C14: a step on a game whose running flag is False leaves body, fruit,
\* score and status (running, won) unchanged.
C14_TerminalStepLeavesGame ==
    [][(~running /\ last'.op = "step" /\ overrun' = overrun + 1) =>
            UNCHANGED <<body, fruit, score, running, won>>]_vars

\* C15: in every observation of a constructed, reset or just stepped
\* game, the terminal observation included, both components of the
\* relative fruit position lie in [-1, 1]: |fruit - head| <= grid_size - 1
\* in x and in y.
C15_RelFruitInUnitRange ==
    overrun = 0 =>
        \A i \in 1 .. 2 :
            Abs(GetState(body, direction, fruit).rel_fruit[i]) <= GridSize - 1

\* C16: in every observation of a constructed, reset or just stepped game,
\* a grid cell holds 1 exactly when the snake body occupies it, 2 exactly
\* when it is the fruit cell and 0 otherwise; the cells holding 1 are as
\* many as the body cells inside the grid and exactly one cell holds 2.
C16_GridEncodesBodyAndFruit ==
    overrun = 0 =>
        LET grid == GetState(body, direction, fruit).grid
        IN  /\ \A c \in Cells :
                /\ grid[c] = 1 <=> c \in Range(body)
                /\ grid[c] = 2 <=> c = fruit
                /\ grid[c] = 0 <=> (c \notin Range(body) /\ c # fruit)
            /\ Cardinality({c \in Cells : grid[c] = 1})
                 = Cardinality(Range(body) \cap Cells)
            /\ Cardinality({c \in Cells : grid[c] = 2}) = 1

\* C17: the store of capacity C holds exactly min(inserted, C) valid
\* entries, namely the most recent ones in ring order, each with a
\* priority of at least PriorityEpsilon; an insertion beyond capacity overwrites
\* the oldest entry, and every batch holds only entries that were among the
\* C most recent when it was sampled, each paired with its own slot.
C17_RingKeepsNewest ==
    LET size == StoreSize(store)
        MinOf(a, b) == IF a < b THEN a ELSE b
    IN  /\ size = MinOf(store.inserted, Capacity)
        /\ {store.slots[i + 1] : i \in ValidSlots(store)}
             = (store.inserted - size + 1) .. store.inserted
        /\ \A i \in 0 .. (Capacity - 1) :
              /\ i \in ValidSlots(store) =>
                    /\ store.slots[i + 1] % Capacity = (i + 1) % Capacity
                    /\ store.prios[i + 1] >= PriorityEpsilon
              /\ i \notin ValidSlots(store) => store.prios[i + 1] = 0
        /\ \A k \in 1 .. Len(store.batch) :
              /\ store.batch[k][2] > store.batch_at - Capacity
              /\ store.batch[k][2] <= store.batch_at
              /\ store.batch[k][2] % Capacity = (store.batch[k][1] + 1) % Capacity

\* C17 witness: capacity 4, priorities 1 to 4 inserted, a fifth insertion
\* has overwritten slot 0 (the oldest), size is still 4 and a batch was
\* sampled after it.
C17_Witness ==
    /\ store.inserted = Capacity + 1
    /\ store.slots = <<5, 2, 3, 4>>
    /\ store.prios[2] = 200 /\ store.prios[3] = 300 /\ store.prios[4] = 400
    /\ StoreSize(store) = Capacity
    /\ store.batch_at = Capacity + 1
    /\ \E k \in 1 .. Len(store.batch) : store.batch[k] = <<0, 5>>

\* C18: in the interactive loop in human mode, under every interleaving of
\* key events and MOVE_EVENTs, the direction of a move is never the exact
\* opposite of the direction of the previous move.
C18_NoMoveBackwards ==
    [][(running /\ body' # body /\ ui.moved # <<>> /\ ui'.moved # <<>>) =>
            ui'.moved[1] # Opposite(ui.moved[1])]_vars

\* C19: every transition the training loop stores has as its observation
\* the encoding of the state the instance was in immediately before the
\* stored action was applied, also on the first tick after an auto-reset.
C19_StoredObservationIsStateActedOn ==
    \A i \in Envs :
        train.stored[i] # <<>> =>
            train.stored[i][1].obs = Observe(train.before[i])

\* The ticks that TARGET_UPDATE_FREQ environment steps take, rounded up.
TicksPerRefresh == (TARGET_UPDATE_FREQ + NUM_ENVS - 1) \div NUM_ENVS

\* C20: the target network is refreshed every TARGET_UPDATE_FREQ
\* environment steps, a tick counting as NUM_ENVS steps: never more than
\* TARGET_UPDATE_FREQ steps, rounded up to a whole tick, go by without a
\* refresh.
C20_RefreshEveryTargetUpdateFreqSteps ==
    train.since_refresh <= TicksPerRefresh

\* The calls of the given name among the last tick's calls on the store.
CallsOf(name) == {k \in 1 .. Len(train.calls) : train.calls[k].call = name}

\* C21: memory.sample is only called when the store holds at least
\* BATCH_SIZE entries; on a tick where it holds fewer after the insertions,
\* optimize_model returns None, samples nothing, leaves the accumulation
\* counters and the optimizer alone and updates no priority.
C21_SampleOnlyWithFullBatch ==
    [][(train'.tick = train.tick + 1) =>
          LET st == AddAll(store, TrackedEnvs)
          IN  /\ \A k \in 1 .. Len(train'.calls) :
                    train'.calls[k].call = "sample" =>
                        /\ train'.calls[k].size >= BATCH_SIZE
                        /\ StoreSize(st) >= BATCH_SIZE
              /\ StoreSize(st) < BATCH_SIZE =>
                    /\ \A k \in 1 .. Len(train'.calls) :
                          train'.calls[k].call = "add"
                    /\ train'.ret_loss = <<>>
                    /\ ~train'.stepped
                    /\ train'.accum_step = train.accum_step
                    /\ train'.accum_loss = train.accum_loss
                    /\ store' = st
      ]_vars

\* C21 witness: after the first tick the store holds fewer than BATCH_SIZE
\* entries and optimize_model has returned None without a call on the
\* store.
C21_Witness ==
    /\ train.tick = 1
    /\ StoreSize(store) = TrackedEnvs
    /\ StoreSize(store) < BATCH_SIZE
    /\ Len(train.calls) = TrackedEnvs
    /\ ~train.guarded
    /\ train.ret_loss = <<>>

\* C22: every call of memory.sample is followed at once by one call of
\* memory.update_priorities with the indices sample returned, every
\* update_priorities follows a sample, no insertion comes between the two,
\* and no index handed over is stale.
C22_UpdateFollowsSample ==
    /\ \A k \in CallsOf("sample") :
          /\ k + 1 \in CallsOf("update_priorities")
          /\ train.calls[k + 1].idxs = train.calls[k].idxs
          /\ ~train.calls[k + 1].stale
    /\ \A k \in CallsOf("update_priorities") : k - 1 \in CallsOf("sample")
    /\ Cardinality(CallsOf("sample")) <= 1
    /\ CallsOf("sample") # {} => store.batch_at = store.inserted

\* C22 witness: a tick that sampled slot 0 twice and slot 3, after the ring
\* had wrapped, and updated the priorities of the same indices.
C22_Witness ==
    /\ train.guarded
    /\ store.inserted > Capacity
    /\ \E k \in CallsOf("sample") :
          /\ train.calls[k].idxs = <<0, 0, 3>>
          /\ train.calls[k + 1].idxs = <<0, 0, 3>>

\* C23: among the calls of optimize_model that pass the guard, the
\* optimizer steps on exactly every GRAD_ACCUM_STEPS-th; those calls and no
\* others return a loss, the sum of the losses since the previous
\* optimizer step; the accumulation counter stays in
\* 0 .. GRAD_ACCUM_STEPS - 1.
C23_OptimizerStepsEveryAccumCall ==
    [][(train'.tick = train.tick + 1) =>
          /\ train'.accum_step \in 0 .. (GRAD_ACCUM_STEPS - 1)
          /\ train'.accum_step = train'.guarded_calls % GRAD_ACCUM_STEPS
          /\ train'.stepped <=>
                (train'.guarded /\ train'.guarded_calls % GRAD_ACCUM_STEPS = 0)
          /\ train'.stepped <=> (train'.ret_loss # <<>>)
          /\ train'.stepped =>
                train'.ret_loss = <<train.pending + train'.loss>>
      ]_vars

\* C23 witness: the fourth guarded call has stepped the optimizer and
\* returned the sum of two losses, 1 and 2.
C23_Witness ==
    /\ train.guarded_calls = 2 * GRAD_ACCUM_STEPS
    /\ train.stepped
    /\ train.loss = 2
    /\ train.ret_loss = <<3>>

\* C24: in main.py's event loop and in evaluate.py's loops a game that is
\* not running is never advanced: its body, fruit and score stay as they
\* are under every event until R resets it or a new game replaces it, and
\* main.py takes R only when the game is not running.
C24_TerminalGameNotAdvanced ==
    [][/\ ~running =>
            \/ UNCHANGED <<body, fruit, score, running, won>>
            \/ running' /\ ~won' /\ score' = 0 /\ body' = InitBody
       /\ (ui.mode # "eval" /\ ui.moved # <<>> /\ ui'.moved = <<>>) => ~running
      ]_vars

\* C24 witness: a Won game in an evaluate.py loop, and nothing but a new
\* game can follow.
C24_Witness ==
    /\ ui.mode = "eval"
    /\ won /\ ~running
    /\ score = TotalCells - 3
    /\ last.op = "step"

\* C25: no episode of an instance lasts more than MAX_STEPS_PER_EP ticks:
\* episode_steps never exceeds MAX_STEPS_PER_EP.
C25_EpisodeStepsBounded ==
    \A i \in Envs : train.episode_steps[i] <= MAX_STEPS_PER_EP

\* The multiples of SAVE_EVERY in a + 1 .. b.
SaveMarks(a, b) == {m \in (a + 1) .. b : m % SAVE_EVERY = 0}

ScoreCountsGrowth ==
    /\ score >= 0
    /\ score = Len(body) + (IF grow THEN 1 ELSE 0) - 3

\* C27: in every state reached from construction or reset by ticks of a
\* Running game, score >= 0 and score = len(body) + pending growth - 3;
\* growth is pending after a tick exactly when the head landed on the fruit
\* on it, and the score changes on such ticks only, by +1.
C27_ScoreCountsFruits ==
    /\ ScoreCountsGrowth
    /\ [][/\ overrun' = 0 => ScoreCountsGrowth'
          /\ Tick =>
                /\ grow' <=> (SnakeHead(body') = fruit)
                /\ (score' # score) <=> (SnakeHead(body') = fruit)
                /\ (score' # score) => (score' = score + 1)
         ]_vars

\* C27 witness: a Running game whose third fruit was eaten on the tick that
\* has just returned: five cells and one pending.
C27_Witness ==
    /\ TickReturned
    /\ running
    /\ grow
    /\ score = 3
    /\ Len(body) = 5

\* C28: on a tick of a Running game on which the head lands on the fruit
\* the snake collides neither with a wall nor with itself; a tick that
\* increases the score leaves the game Running or Won and returns
\* reward_fruit or reward_win, never reward_death.
C28_EatingTickNeverDies ==
    [][Tick =>
          /\ (SnakeHead(body') = fruit) =>
                /\ ~CollidedWithSelf(body')
                /\ ~CollidedWithWall(body')
          /\ (score' > score) =>
                /\ running' \/ won'
                /\ last'.reward \in {reward_fruit, reward_win}
                /\ last'.reward # reward_death
                /\ last'.reward = reward_win <=> won'
      ]_vars

\* C28 witness: a snake of seven cells, long enough to bite itself, has
\* just eaten a fruit next to its own body and is still Running.
C28_Witness ==
    /\ TickReturned
    /\ running
    /\ last.reward = reward_fruit
    /\ Len(body) = 7
    /\ \E i \in 4 .. Len(body) :
          Abs(body[1][1] - body[i][1]) + Abs(body[1][2] - body[i][2]) = 1

====
